---- MODULE Spec2Model ----
(***************************************************************************)
(* CLIsnake (src/src/lib.rs): a terminal Snake game.  The model follows    *)
(* Game::new and the loop of Game::play, one action per call the loop      *)
(* makes: Field::draw, Game::poll_key, wait_for_unpause, and the rest of   *)
(* the iteration (Direction::set, Game::update, the Lost branch or the     *)
(* decay of cycle_time).                                                   *)
(***************************************************************************)
EXTENDS Integers, Sequences, FiniteSets, TLC

\* Number of simulation steps that report Playing after which the model
\* stops following a session (cycle_time is decayed once per such step).
MaxTicks == 10

\* Terminal sizes (columns, rows) returned by crossterm::terminal::size().
\* Columns >= 4 and rows >= 2, so that the u16 subtractions of Game::new do
\* not underflow.  Grids: 0x0, 1x1, 2x1, 2x2, 6x1, 6x2 and 12x1.
TermSizes ==
    { <<4, 2>>, <<6, 3>>, <<8, 3>>, <<9, 4>>, <<16, 3>>, <<16, 4>>, <<28, 3>> }

VARIABLES
    term,        \* terminal size, <<columns, rows>>
    pc,          \* "start", "draw", "poll", "paused", "set", "lost",
                 \* "exited", "panicked"
    snake,       \* Game.snake, front first
    direction,   \* Game.direction
    field,       \* Game.field: [width, height, field]
    cycle_time,  \* Game.cycle_time, as the k of 300 ms * 0.9997^k
    intent,      \* value returned by the last poll_key
    frame,       \* arguments of the last completed Field::draw
    summary,     \* score printed by the game-over summary, -1 before
    raw_mode,    \* terminal raw mode enabled
    cursor,      \* "shown" or "hidden"
    exit_code,   \* process exit status, -1 while the process runs
    key,         \* observer: the kind of the last event read by
                 \* event::read() in the current iteration of the loop, as
                 \* the match of poll_key tells events apart (KeyArm);
                 \* NoEvent before any
    reads,       \* observer: events read in the current iteration
    sets,        \* observer: the coordinates passed to Field::set_position
                 \* by the last Game::new or Game::update, in call order
    log,         \* observer: the terminal-mode calls made so far, in order
    eaten,       \* observer: food items consumed so far
    base         \* observer: body length and Empty count at construction
                 \* or at the last consumption

vars == << term, pc, snake, direction, field, cycle_time, intent, frame,
           summary, raw_mode, cursor, exit_code, key, reads, sets, log, eaten,
           base >>

----------------------------------------------------------------------------
\* enum Direction
Direction == { "Up", "Right", "Down", "Left" }

\* Option<Direction>::None
None == "None"

\* enum Block
Empty == << "Empty" >>
Snake == << "Snake" >>
SnakeHead(d) == << "SnakeHead", d >>
Wall == << "Wall" >>
Food == << "Food" >>

\* struct Position
Position(x, y) == [x |-> x, y |-> y]

\* Position::step
step(p, d) ==
    CASE d = "Up" -> Position(p.x, p.y - 1)
      [] d = "Right" -> Position(p.x + 1, p.y)
      [] d = "Down" -> Position(p.x, p.y + 1)
      [] d = "Left" -> Position(p.x - 1, p.y)

\* Direction::set with a missing reversal arm.
set_forgets_left(current, requested) ==
    CASE current = "Down" /\ requested = "Up" -> current
      [] current = "Up" /\ requested = "Down" -> current
      [] current = "Left" /\ requested = "Right" -> current
      [] OTHER -> requested

\* Direction::set with the (Up, Down) arm missing.
set_forgets_down(current, requested) ==
    CASE current = "Down" /\ requested = "Up" -> current
      [] current = "Left" /\ requested = "Right" -> current
      [] current = "Right" /\ requested = "Left" -> current
      [] OTHER -> requested

\* Direction::set: the value of *self afterwards
set(current, requested) ==
    CASE current = "Down" /\ requested = "Up" -> current
      [] current = "Up" /\ requested = "Down" -> current
      [] current = "Left" /\ requested = "Right" -> current
      [] current = "Right" /\ requested = "Left" -> current
      [] OTHER -> requested

----------------------------------------------------------------------------
\* Coordinates stored by a width x height Field
Cells(w, h) == { Position(x, y) : x \in 0 .. w - 1, y \in 0 .. h - 1 }

\* Field::new
NewField(w, h) ==
    [width |-> w, height |-> h, field |-> [p \in Cells(w, h) |-> Empty]]

\* The indexing self.field[y][x] of set_position succeeds
InRange(f, p) == p \in DOMAIN f.field

\* Field::set_position, for a position in range
set_position(f, p, b) == [f EXCEPT !.field[p] = b]

\* Field::get_position without the bounds checks.
get_position_unchecked(f, p) ==
    IF p \in DOMAIN f.field THEN f.field[p] ELSE Empty

\* Field::get_position reporting a body segment as Empty.
get_position_body_as_empty(f, p) ==
    IF p.x < 0 \/ p.x >= f.width THEN Wall
    ELSE IF p.y < 0 \/ p.y >= f.height THEN Wall
    ELSE IF f.field[p] = Snake THEN Empty
    ELSE f.field[p]

\* Field::get_position
get_position(f, p) ==
    IF p.x < 0 \/ p.x >= f.width THEN Wall
    ELSE IF p.y < 0 \/ p.y >= f.height THEN Wall
    ELSE f.field[p]

\* Field::place_food collecting every cell, whatever it holds.
allowed_any_cell(f) == Cells(f.width, f.height)

\* Field::place_food: the vector `allowed`
allowed(f) ==
    { p \in Cells(f.width, f.height) : get_position(f, p) = Empty }

\* Events that wait_for_unpause may discard before the model stops
\* following a pause
MaxReads == 3

\* Number of decimal digits of n >= 0
Digits(n) == IF n < 10 THEN 1 ELSE IF n < 100 THEN 2 ELSE 3

\* Field::draw: score_str.len() for "score: {length - 2}"
ScoreStrLen(length) == 7 + Digits(length - 2)

\* Field::draw: the argument of the last "━".repeat(..)
Padding(f, length, paused) ==
    f.width * 2 - ScoreStrLen(length) - (IF paused THEN 16 ELSE 4)

\* Field::draw: characters of the top border line, "┏", "━━" per column, "┓"
TopWidth(f) == 1 + 2 * f.width + 1

\* Field::draw: characters of the bottom border line: "┗━━", the score
\* between two spaces, "━━ [PAUSED] " when paused, the padding, "┛"
BottomWidth(f, length, paused) ==
    3 + (ScoreStrLen(length) + 2) + (IF paused THEN 12 ELSE 0)
      + Padding(f, length, paused) + 1

\* Field::draw completes: the usize subtractions do not underflow (an
\* underflow panics in a debug build; in a release build it wraps and
\* str::repeat panics with "capacity overflow")
DrawCompletes(f, length, paused) ==
    length >= 2 /\ Padding(f, length, paused) >= 0

----------------------------------------------------------------------------
\* Number of cells of the field holding block b
Count(f, b) == Cardinality({ p \in DOMAIN f.field : f.field[p] = b })

Range(s) == { s[i] : i \in 1 .. Len(s) }

NoField == [width |-> 0, height |-> 0, field |-> << >>]

\* No event has been read
NoEvent == "no event"

\* Game::new: the initial cycle_time, 300 ms (0 factors of 0.9997)
initial_cycle_time == 0

Init ==
    /\ term \in TermSizes
    /\ pc = "start"
    /\ snake = << >>
    /\ direction = "Right"
    /\ field = NoField
    /\ cycle_time = initial_cycle_time
    /\ intent = None
    /\ frame = [score |-> -1, paused |-> FALSE]
    /\ summary = -1
    /\ raw_mode = FALSE
    /\ cursor = "shown"
    /\ exit_code = -1
    /\ key = NoEvent
    /\ reads = 0
    /\ sets = << >>
    /\ log = << >>
    /\ eaten = 0
    /\ base = [len |-> 0, empty |-> 0]

\* A panic (a failed unwrap, index or subtraction): the process aborts
\* where it is, with status 101 and terminal mode left as it was
Panic == pc' = "panicked" /\ exit_code' = 101

\* Game::new: the terminal-mode calls, in order
new_calls == << "enable_raw_mode", "hide_cursor" >>

\* Game::new
NewGame ==
    /\ pc = "start"
    /\ log' = log \o new_calls
    /\ raw_mode' = TRUE
    /\ cursor' = "hidden"
    /\ LET width == (term[1] \div 2) - 2
           height == term[2] - 2
           initial_position == Position(width \div 2, height \div 2)
           tail_position == Position(initial_position.x - 1, initial_position.y)
           f0 == NewField(width, height)
       IN  IF ~InRange(f0, initial_position)
           THEN /\ Panic
                /\ field' = f0
                /\ sets' = << initial_position >>
                /\ UNCHANGED << snake, base >>
           ELSE IF ~InRange(f0, tail_position)
           THEN /\ Panic
                /\ field' = set_position(f0, initial_position,
                                         SnakeHead("Right"))
                /\ sets' = << initial_position, tail_position >>
                /\ UNCHANGED << snake, base >>
           ELSE LET f2 == set_position(
                             set_position(f0, initial_position,
                                          SnakeHead("Right")),
                             tail_position, Snake)
                IN  IF allowed(f2) = {}
                    THEN /\ Panic
                         /\ field' = f2
                         /\ sets' = << initial_position, tail_position >>
                         /\ UNCHANGED << snake, base >>
                    ELSE \E chosen \in allowed(f2) :
                           /\ field' = set_position(f2, chosen, Food)
                           /\ sets' = << initial_position, tail_position,
                                         chosen >>
                           /\ snake' = << initial_position, tail_position >>
                           /\ base' = [len |-> 2,
                                       empty |-> Count(field', Empty)]
                           /\ pc' = "draw"
                           /\ UNCHANGED exit_code
    /\ UNCHANGED << term, direction, cycle_time, intent, frame, summary,
                    key, reads, eaten >>

\* Field::draw as called at the top of the loop of Game::play
Draw ==
    /\ pc = "draw"
    /\ IF DrawCompletes(field, Len(snake), FALSE)
       THEN /\ frame' = [score |-> Len(snake) - 2, paused |-> FALSE]
            /\ pc' = "poll"
            /\ UNCHANGED exit_code
       ELSE /\ Panic
            /\ UNCHANGED frame
    /\ UNCHANGED << term, snake, direction, field, cycle_time, intent,
                    summary, raw_mode, cursor, key, reads, sets, log, eaten,
                    base >>

\* Key events delivered by event::read(): arrow keys and characters, "x"
\* standing for any key the program does not name
KeyCodes ==
    { "Up", "Right", "Down", "Left", "k", "w", "l", "d", "j", "s", "h", "a",
      "c", "p", "x" }

Modifiers == { "NONE", "CONTROL" }

Events == [code : KeyCodes, modifiers : Modifiers]

\* Game::poll_key: the arm of the match that an event takes
KeyArm(ev) ==
    CASE ev.code \in { "Up", "k", "w" } /\ ev.modifiers = "NONE" -> "Up"
      [] ev.code \in { "Right", "l", "d" } /\ ev.modifiers = "NONE" -> "Right"
      [] ev.code \in { "Down", "j", "s" } /\ ev.modifiers = "NONE" -> "Down"
      [] ev.code \in { "Left", "h", "a" } /\ ev.modifiers = "NONE" -> "Left"
      [] ev.code = "c" /\ ev.modifiers = "CONTROL" -> "exit"
      [] ev.code = "p" /\ ev.modifiers = "NONE" -> "pause"
      [] OTHER -> None

\* wait_for_unpause ended by the pause key under any modifier.
IsUnpause_any_modifier(ev) == ev.code = "p"

\* wait_for_unpause: the event ends the loop
IsUnpause(ev) == ev.code = "p" /\ ev.modifiers = "NONE"

\* Game::poll_key, Ctrl+C arm, exiting with the status of success.
exit_status_success == 1 - 1

\* Game::poll_key, Ctrl+C arm: the argument of exit
exit_status == 1

\* A loop that starts over, without a step, when the poll times out.
PollTimeout_skips_step ==
    /\ pc = "poll"
    /\ intent' = None
    /\ pc' = "draw"
    /\ UNCHANGED << term, snake, direction, field, cycle_time, frame,
                    summary, raw_mode, cursor, exit_code, key, reads, sets,
                    log, eaten, base >>

\* Game::poll_key when event::poll times out
PollTimeout ==
    /\ pc = "poll"
    /\ intent' = None
    /\ pc' = "set"
    /\ UNCHANGED << term, snake, direction, field, cycle_time, frame,
                    summary, raw_mode, cursor, exit_code, key, reads, sets,
                    log, eaten, base >>

\* Game::poll_key when event::poll reports an event
PollKey ==
    /\ pc = "poll"
    /\ \E ev \in Events :
         LET arm == KeyArm(ev)
         IN  /\ key' = arm
             /\ reads' = reads + 1
             /\ CASE arm = "exit" ->
                        /\ pc' = "exited"
                        /\ exit_code' = exit_status
                        /\ UNCHANGED << intent, frame >>
                   [] arm = "pause" ->
                        IF DrawCompletes(field, Len(snake), TRUE)
                        THEN /\ frame' = [score |-> Len(snake) - 2,
                                          paused |-> TRUE]
                             /\ pc' = "paused"
                             /\ UNCHANGED << intent, exit_code >>
                        ELSE /\ Panic
                             /\ UNCHANGED << intent, frame >>
                   [] OTHER ->
                        /\ intent' = arm
                        /\ pc' = "set"
                        /\ UNCHANGED << frame, exit_code >>
    /\ UNCHANGED << term, snake, direction, field, cycle_time, summary,
                    raw_mode, cursor, sets, log, eaten, base >>

\* wait_for_unpause whose loop also ages the cycle time on each event.
WaitForUnpause_decays ==
    /\ pc = "paused"
    /\ \E ev \in Events :
         /\ key' = KeyArm(ev)
         /\ reads' = reads + 1
         /\ IF IsUnpause(ev)
            THEN /\ intent' = None
                 /\ pc' = "set"
            ELSE /\ reads < MaxReads
                 /\ UNCHANGED << intent, pc >>
    /\ cycle_time' = IF cycle_time < MaxTicks THEN cycle_time + 1
                     ELSE cycle_time
    /\ UNCHANGED << term, snake, direction, field, frame, summary,
                    raw_mode, cursor, exit_code, sets, log, eaten, base >>

\* wait_for_unpause reading one event; on the pause key poll_key returns None
WaitForUnpause ==
    /\ pc = "paused"
    /\ \E ev \in Events :
         /\ key' = KeyArm(ev)
         /\ reads' = reads + 1
         /\ IF IsUnpause(ev)
            THEN /\ intent' = None
                 /\ pc' = "set"
            ELSE /\ reads < MaxReads
                 /\ UNCHANGED << intent, pc >>
    /\ UNCHANGED << term, snake, direction, field, cycle_time, frame,
                    summary, raw_mode, cursor, exit_code, sets, log, eaten,
                    base >>

\* Game::update, Block::Empty arm with the tail cell left as it is.
update_empty_keeps_tail(f, new_head, old_head, tail, d) ==
    set_position(set_position(f, new_head, SnakeHead(d)), old_head, Snake)

\* Game::update, Block::Empty arm with the old head cell left as it is.
update_empty_keeps_old_head(f, new_head, old_head, tail, d) ==
    set_position(set_position(f, new_head, SnakeHead(d)), tail, Empty)

\* Game::update, Block::Empty arm: the field afterwards
update_empty(f, new_head, old_head, tail, d) ==
    set_position(
        set_position(set_position(f, new_head, SnakeHead(d)), old_head, Snake),
        tail, Empty)

\* Game::update, Block::Food arm with the consumed cell left as it is.
update_food_leaves_food(f, new_head, old_head, d) ==
    set_position(f, old_head, Snake)

\* Game::update, Block::Food arm: the field before place_food
update_food(f, new_head, old_head, d) ==
    set_position(set_position(f, new_head, SnakeHead(d)), old_head, Snake)

\* VecDeque::pop_back that removes nothing.
pop_back_nothing(s) == s

\* Game::update, Block::Empty arm: self.snake.pop_back()
pop_back(s) == SubSeq(s, 1, Len(s) - 1)

\* The game-over summary computed like the score of Field::draw.
final_score_as_drawn(s) == Len(s) - 2

\* Game::play, Lost branch: the score of the summary
final_score(s) == Len(s) - 3

\* Game::play: the decay left out.
decay_skipped(ct) == ct

\* Game::play: self.cycle_time *= 0.9997 (one more factor of 0.9997)
decay(ct) == ct + 1

\* Game::play, Lost branch with the summary printed before the terminal
\* is restored.
game_over_prints_first ==
    << "print_summary", "disable_raw_mode", "show_cursor", "break" >>

\* Game::play, Lost branch: the calls, in order
game_over_calls ==
    << "disable_raw_mode", "show_cursor", "print_summary", "break" >>

\* Game::play after poll_key: Direction::set, Game::update, then the Lost
\* branch or the decay of cycle_time
Step ==
    /\ pc = "set"
    /\ cycle_time < MaxTicks
    /\ direction' = IF intent = None THEN direction
                    ELSE set(direction, intent)
    /\ LET old_head == snake[1]
           new_head == step(old_head, direction')
           pushed == << new_head >> \o snake
           tail == pushed[Len(pushed)]
           block == get_position(field, new_head)
       IN  CASE block = Empty ->
                  /\ field' = update_empty(field, new_head, old_head, tail,
                                           direction')
                  /\ sets' = << new_head, old_head, tail >>
                  /\ snake' = pop_back(pushed)
                  /\ cycle_time' = decay(cycle_time)
                  /\ pc' = "draw"
                  /\ key' = NoEvent
                  /\ reads' = 0
                  /\ UNCHANGED << summary, raw_mode, cursor, exit_code, log,
                                  eaten, base >>
             [] block = Food ->
                  LET f2 == update_food(field, new_head, old_head, direction')
                  IN  /\ snake' = pushed
                      /\ IF allowed(f2) = {}
                         THEN /\ Panic
                              /\ field' = f2
                              /\ sets' = << new_head, old_head >>
                              /\ UNCHANGED << cycle_time, key, reads, eaten,
                                              base >>
                         ELSE \E chosen \in allowed(f2) :
                                /\ field' = set_position(f2, chosen, Food)
                                /\ sets' = << new_head, old_head, chosen >>
                                /\ cycle_time' = decay(cycle_time)
                                /\ eaten' = eaten + 1
                                /\ base' = [len |-> Len(pushed),
                                            empty |-> Count(field', Empty)]
                                /\ pc' = "draw"
                                /\ key' = NoEvent
                                /\ reads' = 0
                                /\ UNCHANGED exit_code
                      /\ UNCHANGED << summary, raw_mode, cursor, log >>
             [] OTHER ->
                  /\ snake' = pushed
                  /\ sets' = << >>
                  /\ log' = log \o game_over_calls
                  /\ raw_mode' = IF "disable_raw_mode" \in Range(game_over_calls)
                                 THEN FALSE ELSE raw_mode
                  /\ cursor' = IF "show_cursor" \in Range(game_over_calls)
                               THEN "shown" ELSE cursor
                  /\ summary' = final_score(pushed)
                  /\ pc' = "lost"
                  /\ exit_code' = 0
                  /\ UNCHANGED << field, cycle_time, key, reads, eaten, base >>
    /\ UNCHANGED << term, intent, frame >>

Next == NewGame \/ Draw \/ PollTimeout \/ PollKey \/ WaitForUnpause \/ Step

Spec == Init /\ [][Next]_vars

----------------------------------------------------------------------------
\* The session is Playing: constructed, and no step has reported Lost
Playing == pc \in { "draw", "poll", "paused", "set" }

\* A tick boundary: after construction or after a step that reported Playing
TickBoundary == pc = "draw"

\* This transition runs Game::update (Step is the only action at "set")
Stepped == pc = "set" /\ pc' # "set"

\* The new head coordinate of the step this transition runs
NewHead == step(snake[1], direction')

\* Cells of field f marked Snake or SnakeHead(_)
BodyCells(f) ==
    { p \in DOMAIN f.field : f.field[p] = Snake \/ f.field[p][1] = "SnakeHead" }

\* Cells of field f marked Food
FoodCells(f) == { p \in DOMAIN f.field : f.field[p] = Food }

Opposite(d) ==
    CASE d = "Up" -> "Down"
      [] d = "Down" -> "Up"
      [] d = "Left" -> "Right"
      [] d = "Right" -> "Left"

\* C1: while Playing, at every tick boundary, the coordinates of the body
\* sequence are exactly the cells marked Snake or SnakeHead, and no
\* coordinate occurs twice in the sequence.
C1_Lockstep ==
    TickBoundary =>
        /\ Range(snake) = BodyCells(field)
        /\ Cardinality(Range(snake)) = Len(snake)

\* A tick boundary after the snake has moved and grown.
C1_Witness ==
    /\ TickBoundary
    /\ eaten >= 1
    /\ cycle_time >= 3
    /\ Len(snake) >= 3
    /\ Range(snake) = BodyCells(field)

\* C2: Direction::set leaves the heading H when the opposite of H is
\* requested and makes it R for every other request R (R = H included),
\* for all sixteen pairs and in every step that applies an intent.
C2_Set ==
    [][ /\ \A H \in Direction : \A R \in Direction :
             set(H, R) = IF R = Opposite(H) THEN H ELSE R
        /\ Stepped /\ intent # None =>
             direction' = IF intent = Opposite(direction) THEN direction
                          ELSE intent ]_vars

\* A step has run whose requested heading was the opposite of the current
\* one, and the heading is what it was.
C2_Witness ==
    /\ TickBoundary
    /\ intent = Opposite(direction)

\* C3: the heading a step uses is never the opposite of the heading the
\* previous step used (Right before the first step), and the new head is
\* never the segment right behind the head; from head (5,5) heading Right
\* the intents Up then Down move the head to (5,4) and then (5,3).
C3_NoReversal ==
    [][ /\ Stepped =>
             /\ direction' # Opposite(direction)
             /\ NewHead # snake[2]
             /\ snake'[1] = NewHead
        /\ LET d1 == set("Right", "Up")
               h1 == step(Position(5, 5), d1)
               d2 == set(d1, "Down")
               h2 == step(h1, d2)
           IN  h1 = Position(5, 4) /\ h2 = Position(5, 3) ]_vars

\* Heading Up, Down was requested and the head still moved up.
C3_Witness ==
    /\ pc \in { "draw", "lost" }
    /\ direction = "Up"
    /\ intent = "Down"
    /\ snake[1] = step(snake[2], "Up")
    /\ cycle_time >= 1

\* This transition runs a step whose new head cell holds Food
Ate == Stepped /\ NewHead \in FoodCells(field)

\* C4 as stated: a step onto Food lengthens the body by one and leaves
\* exactly one Food cell, on a cell that was Empty and is no body cell and
\* not the cell consumed.
C4_AsStated ==
    [][ Ate =>
          /\ Len(snake') = Len(snake) + 1
          /\ Cardinality(FoodCells(field')) = 1
          /\ \A p \in FoodCells(field') :
               /\ field.field[p] = Empty
               /\ p \notin Range(snake')
               /\ p # NewHead ]_vars

\* C4 as amended: the same, provided some cell is Empty when the food is
\* consumed; otherwise place_food aborts the step, the body one longer and
\* no Food cell on the grid.
C4_FoodConsumption ==
    [][ Ate =>
          /\ Len(snake') = Len(snake) + 1
          /\ snake'[Len(snake')] = snake[Len(snake)]
          /\ IF Count(field, Empty) > 0
             THEN /\ pc' = "draw"
                  /\ Cardinality(FoodCells(field')) = 1
                  /\ \A p \in FoodCells(field') :
                       /\ field.field[p] = Empty
                       /\ p \notin Range(snake')
                       /\ p # NewHead
             ELSE /\ pc' = "panicked"
                  /\ FoodCells(field') = {} ]_vars

\* Food was consumed twice and a Food cell is on the grid, off the body.
C4_Witness ==
    /\ TickBoundary
    /\ eaten >= 2
    /\ Len(snake) = 2 + eaten
    /\ Cardinality(FoodCells(field)) = 1
    /\ FoodCells(field) \cap Range(snake) = {}

\* Coordinates one step outside the grid of field f
Outside(f) ==
    { Position(x, y) : x \in { -1, f.width }, y \in 0 .. f.height - 1 }
      \cup { Position(x, y) : x \in 0 .. f.width - 1, y \in { -1, f.height } }

\* C5: get_position returns Wall for every coordinate one step outside the
\* grid, and a step whose new head is such a coordinate reports Lost.
C5_Boundary ==
    [][ /\ \A p \in Outside(field) : get_position(field, p) = Wall
        /\ Stepped /\ NewHead \in Outside(field) => pc' = "lost" ]_vars

\* The session is Lost with the head pushed one step outside the grid.
C5_Witness ==
    /\ pc = "lost"
    /\ snake[1] \in Outside(field)
    /\ get_position(field, snake[1]) = Wall

\* C6: a step whose new head is a cell marked Snake or SnakeHead (the
\* tail's cell included) or is out of range reports Lost and leaves every
\* cell of the grid as it was.
C6_Collision ==
    [][ Stepped /\ (NewHead \in BodyCells(field)
                      \/ NewHead \notin DOMAIN field.field) =>
          /\ pc' = "lost"
          /\ field' = field ]_vars

\* The session is Lost on the cell of the tail, the grid still marking
\* that cell Snake.
C6_Witness ==
    /\ pc = "lost"
    /\ Len(snake) >= 5
    /\ snake[1] = snake[Len(snake)]
    /\ get_position(field, snake[1]) = Snake

\* C7: after any number of consecutive steps that consume no food and do
\* not report Lost, the body length and the number of Empty cells are what
\* they were before those steps (base: at construction or at the last
\* consumption).
C7_Conservation ==
    TickBoundary =>
        /\ Len(snake) = base.len
        /\ Count(field, Empty) = base.empty

\* Four steps have run in a row without food.
C7_Witness ==
    /\ TickBoundary
    /\ eaten = 0
    /\ cycle_time >= 4
    /\ Len(snake) = 2

\* Cells that hold Food after this transition and did not before
PlacedFood ==
    { p \in FoodCells(field') : p \notin FoodCells(field) }

\* C8: while Playing the grid holds at most one Food cell; food is placed
\* only on a cell that was Empty, once by the construction and once by a
\* step that consumed food, and by nothing else.
C8_Food ==
    [][ /\ Playing' => Cardinality(FoodCells(field')) <= 1
        /\ PlacedFood # {} =>
             \/ pc = "start" /\ pc' = "draw"
             \/ Ate /\ pc' = "draw"
        /\ pc = "start" /\ pc' = "draw" =>
             /\ Cardinality(PlacedFood) = 1
             /\ PlacedFood \cap Range(snake') = {}
        /\ Ate /\ pc' = "draw" =>
             /\ Cardinality(PlacedFood) = 1
             /\ \A p \in PlacedFood : field.field[p] = Empty ]_vars

\* Food has been placed by the construction and again after a consumption.
C8_Witness ==
    /\ Playing
    /\ eaten >= 1
    /\ Cardinality(FoodCells(field)) = 1

\* C9: from the pause key read by poll_key to the pause key read by
\* wait_for_unpause no step runs and cycle_time is not decayed: grid, body,
\* heading and cycle_time stay what they were, the session stays Playing,
\* and poll_key returns None.
C9_Pause ==
    [][ /\ pc = "poll" /\ pc' = "paused" =>
             UNCHANGED << field, snake, direction, cycle_time >>
        /\ pc = "paused" =>
             /\ pc' \in { "paused", "set" }
             /\ UNCHANGED << field, snake, direction, cycle_time, summary >>
             /\ pc' = "set" => intent' = None ]_vars

\* The pause sub-loop has returned after a move: the last frame drawn is
\* the paused one and poll_key has returned None.
C9_Witness ==
    /\ pc = "set"
    /\ frame.paused
    /\ intent = None
    /\ cycle_time >= 1

\* C10: when the session is Lost, the score of the summary is the body
\* length (the cells the snake occupies) minus two, the number of food
\* items consumed and the score of the last frame drawn; the subtraction
\* does not underflow.
C10_Score ==
    pc = "lost" =>
        /\ Len(snake) >= 3
        /\ summary = Cardinality(BodyCells(field)) - 2
        /\ summary = eaten
        /\ summary = frame.score
        /\ summary >= 0

\* A session that consumed food is Lost.
C10_Witness ==
    /\ pc = "lost"
    /\ eaten >= 2
    /\ summary = eaten

\* Call a occurs in sequence sq, and before every occurrence of call b
Precedes(sq, a, b) ==
    /\ a \in Range(sq)
    /\ \A k \in 1 .. Len(sq) : sq[k] = b => \E i \in 1 .. k - 1 : sq[i] = a

\* C11: Lost is terminal: after a step has reported Lost nothing more is
\* drawn, polled or stepped; raw mode is disabled and the cursor shown
\* before the summary is printed and before play returns; play returns
\* (status 0) only there, with the terminal mode restored.
C11_Graceful ==
    [][ /\ pc # "lost"
        /\ pc' = "lost" =>
             /\ Stepped
             /\ raw_mode' = FALSE
             /\ cursor' = "shown"
             /\ summary' >= 0
             /\ Precedes(log', "enable_raw_mode", "disable_raw_mode")
             /\ Precedes(log', "disable_raw_mode", "print_summary")
             /\ Precedes(log', "show_cursor", "print_summary")
             /\ Precedes(log', "print_summary", "break")
        /\ exit_code' = 0 =>
             /\ pc' = "lost"
             /\ raw_mode' = FALSE
             /\ cursor' = "shown" ]_vars

\* play has returned after a game that was played for a while: the
\* terminal is restored and the summary printed after that.
C11_Witness ==
    /\ pc = "lost"
    /\ exit_code = 0
    /\ cycle_time >= 2
    /\ raw_mode = FALSE
    /\ cursor = "shown"
    /\ log = new_calls \o game_over_calls

\* This transition reads an event of kind k
Read(k) == reads' = reads + 1 /\ key' = k

\* C12 as stated: whenever Ctrl+C is read while the session runs, the
\* process terminates at once with a non-zero status, with no further
\* step, no summary and the terminal mode not restored.
C12_AsStated ==
    [][ Playing /\ Read("exit") =>
          /\ pc' = "exited"
          /\ exit_code' > 0
          /\ UNCHANGED << snake, field, direction, cycle_time, summary,
                          raw_mode, cursor, log >> ]_vars

\* C12 as amended: that holds of a Ctrl+C read by poll_key, and the
\* process then does nothing more; a Ctrl+C read by wait_for_unpause is
\* discarded and the session stays paused.
C12_ForceQuit ==
    [][ /\ pc # "exited"
        /\ pc = "poll" /\ Read("exit") =>
             /\ pc' = "exited"
             /\ exit_code' > 0
             /\ raw_mode' = TRUE
             /\ cursor' = "hidden"
             /\ summary' = -1
             /\ UNCHANGED << snake, field, direction, cycle_time, summary,
                             raw_mode, cursor, log >>
        /\ pc = "paused" /\ Read("exit") =>
             /\ pc' = "paused"
             /\ exit_code' = -1
        /\ pc' = "exited" => pc = "poll" /\ Read("exit") ]_vars

\* The process has exited on Ctrl+C in the middle of a game, the terminal
\* still in raw mode and no summary printed.
C12_Witness ==
    /\ pc = "exited"
    /\ key = "exit"
    /\ exit_code = 1
    /\ cycle_time >= 2
    /\ raw_mode
    /\ cursor = "hidden"
    /\ summary = -1

C14_AsStated ==
    Playing /\ field.width >= 1 =>
        \A paused \in BOOLEAN :
            /\ Padding(field, Len(snake), paused) >= 0
            /\ DrawCompletes(field, Len(snake), paused)
            /\ BottomWidth(field, Len(snake), paused) = TopWidth(field)
            /\ TopWidth(field) = 2 * field.width + 2

\* C15: the cycle-time budget starts at the initial budget, is multiplied by
\* the decay factor exactly once by every simulation step that reports
\* Playing, with or without food, and is changed by nothing else: not by a
\* step that reports Lost, not during pause, not by polling or drawing.
\* cycle_time counts the multiplications, so after k such steps it is k.
C15_Decay ==
    [][ /\ pc = "start" => cycle_time = initial_cycle_time
        /\ IF Stepped /\ pc' = "draw"
           THEN cycle_time' = cycle_time + 1
           ELSE cycle_time' = cycle_time ]_vars

\* Three steps reported Playing, one of them consumed food and one did not
C15_Witness ==
    pc = "draw" /\ cycle_time >= 3 /\ eaten >= 1 /\ eaten < cycle_time

\* C16: on a grid with width >= 1 and height >= 1, every coordinate passed to
\* Field::set_position by Game::new and by Game::update lies inside
\* [0,width) x [0,height).  sets holds the coordinates passed so far.
C16_AsStated ==
    field.width >= 1 /\ field.height >= 1 =>
        \A i \in 1 .. Len(sets) : sets[i] \in Cells(field.width, field.height)

\* C17: a session stops otherwise than by Lost or force-quit only in
\* place_food on a grid with no Empty cell, and then no cell is marked Food:
\* whenever the process has aborted, the grid has no Empty and no Food cell.
C17_AsStated ==
    pc = "panicked" => allowed(field) = {} /\ FoodCells(field) = {}

\* C18: in the pause sub-loop only the unmodified pause key has an effect.
\* Every other event read there, directional keys and Ctrl+C included,
\* changes nothing but the record of the read itself, so the pause is left
\* only by the pause key, never by a force-quit, and it hands the step no
\* heading: the step after the resume keeps the heading.
C18_PauseInput ==
    [][ /\ pc = "paused" /\ key' # "pause" =>
             UNCHANGED << term, pc, snake, direction, field, cycle_time,
                          intent, frame, summary, raw_mode, cursor,
                          exit_code, sets, log, eaten, base >>
        /\ pc = "paused" /\ pc' # "paused" =>
             /\ key' = "pause"
             /\ pc' = "set"
             /\ intent' = None
             /\ exit_code' = exit_code
        /\ Stepped /\ key = "pause" => direction' = direction ]_vars

\* Ctrl+C has been read in the pause sub-loop and the session is still paused
C18_Witness == pc = "paused" /\ key = "exit" /\ exit_code = -1

\* Game::play with no input event ever arriving: every event::poll of
\* poll_key times out
NextNoInput == NewGame \/ Draw \/ PollTimeout \/ Step

\* The loop of Game::play keeps running: each iteration's draw, poll and
\* step is taken when it is due
SpecNoInput == Init /\ [][NextNoInput]_vars /\ WF_vars(NextNoInput)

\* C19: with no input event ever arriving, a session constructed on a grid
\* with width >= 2 does not abort, and reaches Lost by its step number
\* width - floor(width/2): the steps before it, which cycle_time counts,
\* all reported Playing.
C19_AsStated ==
    field.width >= 2 /\ Len(snake) >= 2 =>
        /\ pc # "panicked"
        /\ pc = "lost" =>
             cycle_time + 1 = field.width - (field.width \div 2)

\* Two coordinates differ by exactly 1 in exactly one axis
Adjacent(p, q) ==
    \/ p.y = q.y /\ (p.x = q.x + 1 \/ q.x = p.x + 1)
    \/ p.x = q.x /\ (p.y = q.y + 1 \/ q.y = p.y + 1)

\* The cells of the grid marked as a head, whatever heading they store
HeadCells(f) ==
    { p \in DOMAIN f.field : f.field[p] \in { SnakeHead(d) : d \in Direction } }

\* C20: at every tick boundary while Playing the body has at least two
\* elements, consecutive elements are orthogonally adjacent, exactly one cell
\* is marked Head, it is the front of the body and stores the current
\* heading, the front is the second element moved one cell along that
\* heading, and every other body cell is marked as a body segment.
C20_Body ==
    TickBoundary =>
        /\ Len(snake) >= 2
        /\ \A i \in 1 .. Len(snake) - 1 : Adjacent(snake[i], snake[i + 1])
        /\ HeadCells(field) = { snake[1] }
        /\ field.field[snake[1]] = SnakeHead(direction)
        /\ snake[1] = step(snake[2], direction)
        /\ \A i \in 2 .. Len(snake) : field.field[snake[i]] = Snake

\* A tick boundary after the snake has grown and turned away from Right
C20_Witness ==
    TickBoundary /\ Len(snake) >= 3 /\ direction # "Right" /\ cycle_time >= 2

====
